---- MODULE Spec2Model ----
(***************************************************************************)
(* Model of src/scrape_web_page/main.py: the WebCrawlerScraper crawl loop  *)
(* (crawl_and_scrape / explore_and_scrape), its URL helpers and the        *)
(* rendering of the scraped data (convert_to_text).                        *)
(*                                                                         *)
(* Python strings are sequences of one-character strings, so that          *)
(* str.startswith, str.endswith, the `in` substring test and the           *)
(* urlparse/urlunparse round trip are computed character by character.     *)
(***************************************************************************)
EXTENDS Integers, Sequences, FiniteSets, TLC

\* ------------------------------------------------------------------------
\* Python str primitives
\* ------------------------------------------------------------------------

Take(s, n) == SubSeq(s, 1, n)

Drop(s, n) == SubSeq(s, n + 1, Len(s))

\* str.find(c): 1-based index of the first occurrence of the character c, 0 if none
Find(s, c) ==
    IF \E i \in 1..Len(s) : s[i] = c
    THEN CHOOSE i \in 1..Len(s) : s[i] = c /\ \A j \in 1..(i - 1) : s[j] # c
    ELSE 0

\* str.rfind(c): 1-based index of the last occurrence, 0 if none
RFind(s, c) ==
    IF \E i \in 1..Len(s) : s[i] = c
    THEN CHOOSE i \in 1..Len(s) : s[i] = c /\ \A j \in (i + 1)..Len(s) : s[j] # c
    ELSE 0

\* s.startswith(p)
StartsWith(s, p) == Len(p) <= Len(s) /\ Take(s, Len(p)) = p

\* s.endswith(p)
EndsWith(s, p) == Len(p) <= Len(s) /\ Drop(s, Len(s) - Len(p)) = p

\* p in s  (substring test; the empty string is in every string)
Contains(s, p) ==
    \E i \in 0..(Len(s) - Len(p)) : SubSeq(s, i + 1, i + Len(p)) = p

LowerLetters ==
    <<"a", "b", "c", "d", "e", "f", "g", "h", "i", "j", "k", "l", "m",
      "n", "o", "p", "q", "r", "s", "t", "u", "v", "w", "x", "y", "z">>

UpperLetters ==
    <<"A", "B", "C", "D", "E", "F", "G", "H", "I", "J", "K", "L", "M",
      "N", "O", "P", "Q", "R", "S", "T", "U", "V", "W", "X", "Y", "Z">>

Digits == <<"0", "1", "2", "3", "4", "5", "6", "7", "8", "9">>

Range(s) == {s[i] : i \in 1..Len(s)}

\* str.lower() on one character
LowerChar(c) ==
    IF \E i \in 1..Len(UpperLetters) : UpperLetters[i] = c
    THEN LowerLetters[CHOOSE i \in 1..Len(UpperLetters) : UpperLetters[i] = c]
    ELSE c

Lower(s) == [i \in 1..Len(s) |-> LowerChar(s[i])]

\* ------------------------------------------------------------------------
\* urllib.parse as main.py uses it (urlparse, urlunparse, urljoin)
\* ------------------------------------------------------------------------

SchemeChars == Range(LowerLetters) \cup Range(UpperLetters) \cup Range(Digits) \cup {"+", "-", "."}

S_http == <<"h", "t", "t", "p">>

S_https == <<"h", "t", "t", "p", "s">>

S_ftp == <<"f", "t", "p">>

\* the schemes of urllib's uses_netloc / uses_params / uses_relative that the model's
\* alphabet can spell
uses_netloc == {S_http, S_https, S_ftp}

uses_params == {<<>>, S_http, S_https, S_ftp}

uses_relative == {<<>>, S_http, S_https, S_ftp}

\* urlsplit, scheme part: a leading "<scheme>:" is split off when the first character
\* is a letter and every character before the colon is a scheme character
SplitScheme(url, default) ==
    LET i == Find(url, ":")
    IN  IF i > 1
           /\ url[1] \in (Range(LowerLetters) \cup Range(UpperLetters))
           /\ \A j \in 1..(i - 1) : url[j] \in SchemeChars
        THEN [scheme |-> Lower(Take(url, i - 1)), rest |-> Drop(url, i)]
        ELSE [scheme |-> default, rest |-> url]

\* urlsplit, netloc part (_splitnetloc): after "//" up to the first of "/", "?", "#"
SplitNetloc(rest) ==
    IF Len(rest) >= 2 /\ rest[1] = "/" /\ rest[2] = "/"
    THEN LET stops == {i \in 3..Len(rest) : rest[i] \in {"/", "?", "#"}}
             delim == IF stops = {} THEN Len(rest) + 1
                      ELSE CHOOSE i \in stops : \A j \in stops : i <= j
         IN  [netloc |-> SubSeq(rest, 3, delim - 1), rest |-> Drop(rest, delim - 1)]
    ELSE [netloc |-> <<>>, rest |-> rest]

\* url.split(c, 1): the part before the first c and the part after it
SplitAt(s, c) ==
    LET i == Find(s, c)
    IN  IF i = 0 THEN [head |-> s, tail |-> <<>>]
        ELSE [head |-> Take(s, i - 1), tail |-> Drop(s, i)]

\* _splitparams: ";params" of the last path segment
SplitParams(url) ==
    LET from == RFind(url, "/")
        after == Drop(url, from)
        k == Find(after, ";")
    IN  IF k = 0 THEN [head |-> url, tail |-> <<>>]
        ELSE [head |-> Take(url, from + k - 1), tail |-> Drop(url, from + k)]

\* urlparse(url, scheme=default)
urlparse(url, default) ==
    LET a == SplitScheme(url, default)
        b == SplitNetloc(a.rest)
        f == SplitAt(b.rest, "#")
        q == SplitAt(f.head, "?")
        p == IF a.scheme \in uses_params /\ Find(q.head, ";") > 0
             THEN SplitParams(q.head)
             ELSE [head |-> q.head, tail |-> <<>>]
    IN  [scheme |-> a.scheme, netloc |-> b.netloc, path |-> p.head,
         params |-> p.tail, query |-> q.tail, fragment |-> f.tail]

\* urlunparse (urlunsplit after re-attaching ";params")
urlunparse(parts) ==
    LET u0 == IF parts.params # <<>> THEN parts.path \o <<";">> \o parts.params
              ELSE parts.path
        u1 == IF parts.netloc # <<>>
                 \/ (parts.scheme # <<>> /\ parts.scheme \in uses_netloc
                     /\ ~StartsWith(u0, <<"/", "/">>))
              THEN <<"/", "/">> \o parts.netloc
                   \o (IF u0 # <<>> /\ u0[1] # "/" THEN <<"/">> \o u0 ELSE u0)
              ELSE u0
        u2 == IF parts.scheme # <<>> THEN parts.scheme \o <<":">> \o u1 ELSE u1
        u3 == IF parts.query # <<>> THEN u2 \o <<"?">> \o parts.query ELSE u2
    IN  IF parts.fragment # <<>> THEN u3 \o <<"#">> \o parts.fragment ELSE u3

\* urljoin, the parts of the result when the href is relative to the base:
\* the base's netloc; the base's path (and query) for an href without a path; an
\* absolute path as it is; any other path in the directory of the base's path
JoinParts(b, u) ==
    LET n == IF u.scheme \in uses_netloc THEN b.netloc ELSE u.netloc
    IN  IF u.path = <<>> /\ u.params = <<>>
        THEN [u EXCEPT !.netloc = n, !.path = b.path, !.params = b.params,
                       !.query = IF u.query = <<>> THEN b.query ELSE u.query]
        ELSE IF u.path[1] = "/"
        THEN [u EXCEPT !.netloc = n]
        ELSE [u EXCEPT !.netloc = n, !.path = Take(b.path, RFind(b.path, "/")) \o u.path]

\* urljoin(base, url) for hrefs without "." / ".." segments
urljoin(base, url) ==
    IF base = <<>> THEN url
    ELSE IF url = <<>> THEN base
    ELSE
      LET b == urlparse(base, <<>>)
          u == urlparse(url, b.scheme)
      IN  IF u.scheme # b.scheme \/ u.scheme \notin uses_relative THEN url
          ELSE urlunparse(IF u.scheme \in uses_netloc /\ u.netloc # <<>> THEN u
                          ELSE JoinParts(b, u))

\* ------------------------------------------------------------------------
\* WebCrawlerScraper: URL helpers
\* ------------------------------------------------------------------------

Mut_normalize_url_KeepsFragment(u) ==
    urlunparse([urlparse(u, <<>>) EXCEPT !.query = <<>>])

\* normalize_url: urlunparse(urlparse(url)._replace(query="", fragment=""))
normalize_url(u) ==
    urlunparse([urlparse(u, <<>>) EXCEPT !.query = <<>>, !.fragment = <<>>])

Mut_is_subpath_PathPrefix(u, roots) ==
    \E i \in 1..Len(roots) :
        StartsWith(urlparse(u, <<>>).path, urlparse(roots[i], <<>>).path)

Mut_is_subpath_Swapped(u, roots) == \E i \in 1..Len(roots) : StartsWith(roots[i], u)

\* is_subpath: any(url.startswith(root_url) for root_url in self.root_urls)
is_subpath(u, roots) == \E i \in 1..Len(roots) : StartsWith(u, roots[i])

\* should_ignore: any(ignore_url in url for ignore_url in self.ignore_urls)
should_ignore(u, ignores) == \E ig \in ignores : Contains(u, ig)

\* the extension test of explore_and_scrape (lines 62 and 82)
is_file_url(u) ==
    \/ EndsWith(u, <<".", "p", "d", "f">>)
    \/ EndsWith(u, <<".", "j", "p", "g">>)
    \/ EndsWith(u, <<".", "j", "p", "e", "g">>)

\* ------------------------------------------------------------------------
\* The web the crawler runs against: what requests.get and BeautifulSoup
\* return for each URL
\* ------------------------------------------------------------------------

Origin == S_http \o <<":", "/", "/", "e", "x", "a", "m", "p", "l", "e", ".", "c", "o", "m">>

P_docs == <<"/", "d", "o", "c", "s">>

P_docs_a == <<"/", "d", "o", "c", "s", "/", "a">>

P_docs_b == <<"/", "d", "o", "c", "s", "/", "b">>

P_other == <<"/", "o", "t", "h", "e", "r">>

P_file_pdf == <<"/", "d", "o", "c", "s", "/", "f", "i", "l", "e", ".", "p", "d", "f">>

DocsUrl == Origin \o P_docs

DocsAUrl == Origin \o P_docs_a

DocsBUrl == Origin \o P_docs_b

OtherUrl == Origin \o P_other

FilePdfUrl == Origin \o P_file_pdf

Pages == {DocsUrl, DocsAUrl, DocsBUrl, OtherUrl, FilePdfUrl}

\* response.status_code == 200 and parsable | 200 but BeautifulSoup / get_text raises |
\* another status code | requests.exceptions.RequestException
Outcomes == {"200", "unparsable", "404", "err"}

\* soup.get_text(...) of each page after scrape_content removed header/footer/nav/aside
PageText(u) ==
    CASE u = DocsUrl -> <<"d", "o", "c", "s">>
      [] u = DocsAUrl -> <<"a", "l", "p", "h", "a">>
      [] u = DocsBUrl -> <<"b", "e", "t", "a">>
      [] u = OtherUrl -> <<"o", "t", "h", "e", "r">>
      [] OTHER -> <<"f", "i", "l", "e">>

\* the href attributes of soup.find_all('a', href=True), in document order
LinksScenario(u) ==
    IF u = DocsUrl THEN <<P_docs_a, OtherUrl, P_file_pdf>> ELSE <<>>

LinksSite(u) ==
    CASE u = DocsUrl -> <<P_docs_a \o <<"?", "q">>, <<"d", "o", "c", "s", "/", "b">>,
                          OtherUrl \o <<"#", "f">>, P_file_pdf>>
      [] u = DocsAUrl -> <<<<"b">>, <<"#", "f">>, P_docs>>
      [] u = DocsBUrl -> <<P_docs_a, P_other>>
      [] u = OtherUrl -> <<P_docs_b, OtherUrl>>
      [] OTHER -> <<P_docs_a>>

Graphs == {[u \in Pages |-> LinksScenario(u)], [u \in Pages |-> LinksSite(u)]}

\* the pages whose fetch outcome varies; the others answer 200
FlakyPages == {DocsUrl, DocsAUrl, DocsBUrl, OtherUrl}

Webs ==
    {[u \in Pages |-> [outcome |-> IF u \in FlakyPages THEN o[u] ELSE "200",
                       text |-> PageText(u),
                       links |-> g[u]]] :
        o \in [FlakyPages -> Outcomes], g \in Graphs}

\* the command line: root_urls and --ignore-urls
RootArgs == {DocsUrl \o <<"?", "q">>, DocsAUrl, OtherUrl}

IgnoreArgs == {{}, {<<"/", "b">>}, {<<"o", "t", "h", "e", "r">>}}

MaxRoots == 2

\* ------------------------------------------------------------------------
\* The Document Store: a Python dict, kept in insertion order, as a sequence of
\* <<url, text>> items
\* ------------------------------------------------------------------------

Keys(d) == {d[i][1] : i \in 1..Len(d)}

\* d[k] = v
DictSet(d, k, v) ==
    IF k \in Keys(d)
    THEN [i \in 1..Len(d) |-> IF d[i][1] = k THEN <<k, v>> ELSE d[i]]
    ELSE Append(d, <<k, v>>)

\* d[k]
DictGet(d, k) == d[CHOOSE i \in 1..Len(d) : d[i][1] = k][2]

\* the characters of the model in code point order (Python compares str by code point)
CodePoints ==
    <<"\n", "\"", "#", "+", "-", ".", "/">> \o Digits \o <<":", ";", "=", "?">>
    \o UpperLetters \o LowerLetters

Ord(c) == CHOOSE i \in 1..Len(CodePoints) : CodePoints[i] = c

\* a < b on str
StrLess(a, b) ==
    \E k \in 1..(Len(b)) :
        /\ k <= Len(a) + 1
        /\ \A j \in 1..(k - 1) : a[j] = b[j]
        /\ (k = Len(a) + 1 \/ Ord(a[k]) < Ord(b[k]))

\* x < y on (url, content) tuples
ItemLess(x, y) == StrLess(x[1], y[1]) \/ (x[1] = y[1] /\ StrLess(x[2], y[2]))

\* sorted(): a stable insertion of each item into the sorted prefix
InsertSorted(s, x) ==
    LET before == {i \in 1..Len(s) : ~ItemLess(x, s[i])}
        k == IF before = {} THEN 0 ELSE CHOOSE i \in before : \A j \in before : j <= i
    IN  Take(s, k) \o <<x>> \o Drop(s, k)

RECURSIVE Sorted(_)
Sorted(s) ==
    IF s = <<>> THEN <<>>
    ELSE InsertSorted(Sorted(Take(s, Len(s) - 1)), s[Len(s)])

Mut_sort_scraped_data_Unsorted(d) == d

\* sort_scraped_data: dict(sorted(self.scraped_data.items()))
sort_scraped_data(d) == Sorted(d)

\* f"{url}\n\"\"\"\n{content}\n\"\"\"\n\n"
RenderEntry(u, content) ==
    u \o <<"\n", "\"", "\"", "\"", "\n">> \o content
      \o <<"\n", "\"", "\"", "\"", "\n", "\n">>

RECURSIVE RenderItems(_)
RenderItems(items) ==
    IF items = <<>> THEN <<>>
    ELSE RenderEntry(items[1][1], items[1][2]) \o RenderItems(Tail(items))

Mut_convert_to_text_InsertionOrder(d) == RenderItems(d)

\* convert_to_text: the entries of the sorted data, concatenated
convert_to_text(d) == RenderItems(sort_scraped_data(d))

\* scrape_content: the text that is stored for a parsed page
scrape_content(page) == page.text

\* ------------------------------------------------------------------------
\* State
\* ------------------------------------------------------------------------

VARIABLES
    web,             \* what each URL answers (fixed during a crawl)
    root_urls,       \* self.root_urls: the normalized roots, in the order given
    ignore_urls,     \* self.ignore_urls
    found_urls,      \* self.found_urls
    visited_urls,    \* self.visited_urls
    scraped_data,    \* self.scraped_data
    pc,              \* where crawl_and_scrape / explore_and_scrape stands
    ri,              \* index of root_url in the for loop of crawl_and_scrape
    url,             \* the argument of the running explore_and_scrape call
    normalized_url,  \* its local normalized_url
    fetch_log,       \* the URLs passed to requests.get, in order
    text_content     \* what convert_to_text returned

vars == <<web, root_urls, ignore_urls, found_urls, visited_urls, scraped_data,
          pc, ri, url, normalized_url, fetch_log, text_content>>

\* requests.get on a URL no page of the web answers fails in the transport
Outcome(u) == IF u \in DOMAIN web THEN web[u].outcome ELSE "err"

\* __init__, then the start of crawl_and_scrape
Init ==
    /\ web \in Webs
    /\ \E n \in 1..MaxRoots : \E args \in [1..n -> RootArgs] :
           root_urls = [i \in 1..n |-> normalize_url(args[i])]
    /\ ignore_urls \in IgnoreArgs
    /\ found_urls = {}
    /\ visited_urls = {}
    /\ scraped_data = <<>>
    /\ pc = "for"
    /\ ri = 1
    /\ url = <<>>
    /\ normalized_url = <<>>
    /\ fetch_log = <<>>
    /\ text_content = <<>>

\* ------------------------------------------------------------------------
\* crawl_and_scrape
\* ------------------------------------------------------------------------

\* for root_url in self.root_urls: self.explore_and_scrape(root_url, root_url)
ForRoot ==
    /\ pc = "for"
    /\ ri <= Len(root_urls)
    /\ url' = root_urls[ri]
    /\ pc' = "enter"
    /\ UNCHANGED <<web, root_urls, ignore_urls, found_urls, visited_urls, scraped_data,
                   ri, normalized_url, fetch_log, text_content>>

\* the for loop is exhausted: crawl_and_scrape returns
ForEnd ==
    /\ pc = "for"
    /\ ri > Len(root_urls)
    /\ pc' = "done"
    /\ UNCHANGED <<web, root_urls, ignore_urls, found_urls, visited_urls, scraped_data,
                   ri, url, normalized_url, fetch_log, text_content>>

\* while self.found_urls - self.visited_urls: next_url = (...).pop(); explore_and_scrape
WhilePop ==
    /\ pc = "while"
    /\ found_urls \ visited_urls # {}
    /\ \E next_url \in found_urls \ visited_urls : url' = next_url
    /\ pc' = "enter"
    /\ UNCHANGED <<web, root_urls, ignore_urls, found_urls, visited_urls, scraped_data,
                   ri, normalized_url, fetch_log, text_content>>

\* the while condition is false: on to the next root
WhileExit ==
    /\ pc = "while"
    /\ found_urls \ visited_urls = {}
    /\ ri' = ri + 1
    /\ pc' = "for"
    /\ UNCHANGED <<web, root_urls, ignore_urls, found_urls, visited_urls, scraped_data,
                   url, normalized_url, fetch_log, text_content>>

\* ------------------------------------------------------------------------
\* explore_and_scrape
\* ------------------------------------------------------------------------

\* line 57, the guard: already visited, out of scope of the roots, or ignored
Mut_Dropped_NoVisitedTest(n) ==
    ~is_subpath(n, root_urls) \/ should_ignore(n, ignore_urls)

Mut_Dropped_NoIgnoreTest(n) ==
    n \in visited_urls \/ ~is_subpath(n, root_urls)

Dropped(n) ==
    n \in visited_urls \/ ~is_subpath(n, root_urls) \/ should_ignore(n, ignore_urls)

\* line 59: self.visited_urls.add(normalized_url)
Mut_MarkVisited_Forgotten(n) == visited_urls

MarkVisited(n) == visited_urls \cup {n}

Mut_Enter_MarksBeforeGuard ==
    /\ pc = "enter"
    /\ LET n == normalize_url(url)
       IN  /\ normalized_url' = n
           /\ visited_urls' = MarkVisited(n)
           /\ pc' = IF Dropped(n) \/ is_file_url(n) THEN "while" ELSE "fetch"
    /\ UNCHANGED <<web, root_urls, ignore_urls, found_urls, scraped_data, ri, url,
                   fetch_log, text_content>>

Mut_Enter_MarksNothing ==
    /\ pc = "enter"
    /\ LET n == normalize_url(url)
       IN  /\ normalized_url' = n
           /\ pc' = IF Dropped(n) \/ is_file_url(n) THEN "while" ELSE "fetch"
    /\ UNCHANGED <<web, root_urls, ignore_urls, found_urls, visited_urls, scraped_data,
                   ri, url, fetch_log, text_content>>

Mut_Enter_PopsFound ==
    /\ pc = "enter"
    /\ LET n == normalize_url(url)
       IN  /\ normalized_url' = n
           /\ IF Dropped(n)
              THEN /\ pc' = "while"
                   /\ UNCHANGED <<visited_urls, found_urls>>
              ELSE /\ visited_urls' = MarkVisited(n)
                   /\ found_urls' = found_urls \ {n}
                   /\ pc' = IF is_file_url(n) THEN "while" ELSE "fetch"
    /\ UNCHANGED <<web, root_urls, ignore_urls, scraped_data, ri, url,
                   fetch_log, text_content>>

\* lines 56-64: normalize, the visited/scope/ignore guard, mark visited, skip file URLs
Enter ==
    /\ pc = "enter"
    /\ LET n == normalize_url(url)
       IN  /\ normalized_url' = n
           /\ IF Dropped(n)
              THEN /\ pc' = "while"
                   /\ UNCHANGED visited_urls
              ELSE /\ visited_urls' = MarkVisited(n)
                   /\ pc' = IF is_file_url(n) THEN "while" ELSE "fetch"
    /\ UNCHANGED <<web, root_urls, ignore_urls, found_urls, scraped_data, ri, url,
                   fetch_log, text_content>>

Mut_Fetch_NoStatusTest ==
    /\ pc = "fetch"
    /\ fetch_log' = Append(fetch_log, normalized_url)
    /\ LET o == Outcome(normalized_url)
       IN  CASE o \in {"200", "404"} ->
                  /\ scraped_data' = DictSet(scraped_data, normalized_url,
                                             scrape_content(web[normalized_url]))
                  /\ pc' = "links"
             [] o = "unparsable" ->
                  /\ pc' = "raised"
                  /\ UNCHANGED scraped_data
             [] OTHER ->
                  /\ pc' = "while"
                  /\ UNCHANGED scraped_data
    /\ UNCHANGED <<web, root_urls, ignore_urls, found_urls, visited_urls, ri, url,
                   normalized_url, text_content>>

Mut_Fetch_NoExcept ==
    /\ pc = "fetch"
    /\ fetch_log' = Append(fetch_log, normalized_url)
    /\ LET o == Outcome(normalized_url)
       IN  CASE o = "200" ->
                  /\ scraped_data' = DictSet(scraped_data, normalized_url,
                                             scrape_content(web[normalized_url]))
                  /\ pc' = "links"
             [] o = "404" ->
                  /\ pc' = "while"
                  /\ UNCHANGED scraped_data
             [] OTHER ->
                  /\ pc' = "raised"
                  /\ UNCHANGED scraped_data
    /\ UNCHANGED <<web, root_urls, ignore_urls, found_urls, visited_urls, ri, url,
                   normalized_url, text_content>>

\* lines 66-76: requests.get, then either parse and scrape_content, or report and return;
\* only RequestException is caught, any other exception leaves crawl_and_scrape
Fetch ==
    /\ pc = "fetch"
    /\ fetch_log' = Append(fetch_log, normalized_url)
    /\ LET o == Outcome(normalized_url)
       IN  CASE o = "200" ->
                  /\ scraped_data' = DictSet(scraped_data, normalized_url,
                                             scrape_content(web[normalized_url]))
                  /\ pc' = "links"
             [] o = "unparsable" ->
                  /\ pc' = "raised"
                  /\ UNCHANGED scraped_data
             [] OTHER ->
                  /\ pc' = "while"
                  /\ UNCHANGED scraped_data
    /\ UNCHANGED <<web, root_urls, ignore_urls, found_urls, visited_urls, ri, url,
                   normalized_url, text_content>>

Mut_AddLink_NoExtensionTest(found, base, href, roots, ignores) ==
    LET full_url == normalize_url(urljoin(base, href))
    IN  IF full_url \notin found /\ is_subpath(full_url, roots)
           /\ ~should_ignore(full_url, ignores)
        THEN found \cup {full_url}
        ELSE found

Mut_AddLink_NoIgnoreTest(found, base, href, roots, ignores) ==
    LET full_url == normalize_url(urljoin(base, href))
    IN  IF ~is_file_url(full_url) /\ full_url \notin found /\ is_subpath(full_url, roots)
        THEN found \cup {full_url}
        ELSE found

\* lines 79-84, one link: add the resolved, normalized href to found unless it is a
\* file URL, out of scope or ignored
AddLink(found, base, href, roots, ignores) ==
    LET full_url == normalize_url(urljoin(base, href))
    IN  IF ~is_file_url(full_url)
           /\ full_url \notin found
           /\ is_subpath(full_url, roots)
           /\ ~should_ignore(full_url, ignores)
        THEN found \cup {full_url}
        ELSE found

RECURSIVE AddLinks(_, _, _, _, _)
AddLinks(found, base, hrefs, roots, ignores) ==
    IF hrefs = <<>> THEN found
    ELSE AddLinks(AddLink(found, base, hrefs[1], roots, ignores), base, Tail(hrefs),
                  roots, ignores)

\* lines 79-84: the link loop over the parsed page
Links ==
    /\ pc = "links"
    /\ found_urls' = AddLinks(found_urls, normalized_url, web[normalized_url].links,
                              root_urls, ignore_urls)
    /\ pc' = "while"
    /\ UNCHANGED <<web, root_urls, ignore_urls, visited_urls, scraped_data, ri, url,
                   normalized_url, fetch_log, text_content>>

\* ------------------------------------------------------------------------
\* save_to_file: text_content = self.convert_to_text()
\* ------------------------------------------------------------------------

Save ==
    /\ pc = "done"
    /\ text_content' = convert_to_text(scraped_data)
    /\ pc' = "saved"
    /\ UNCHANGED <<web, root_urls, ignore_urls, found_urls, visited_urls, scraped_data,
                   ri, url, normalized_url, fetch_log>>

Next ==
    \/ ForRoot
    \/ ForEnd
    \/ WhilePop
    \/ WhileExit
    \/ Enter
    \/ Fetch
    \/ Links
    \/ Save

Spec == Init /\ [][Next]_vars

\* crawl_and_scrape has returned and the text is rendered, or an exception left it
Terminated == pc \in {"saved", "raised"}

\* The interpreter runs the next statement as long as there is one: weak fairness of
\* Next, WF_vars(Next). Every pc value other than "saved" and "raised" has a statement
\* to run, so ENABLED <<Next>>_vars is ~Terminated, and the fairness condition
\* <>[](ENABLED <<Next>>_vars) => []<><<Next>>_vars is written with that predicate.
FairSpec == Spec /\ ([]<>Terminated \/ []<><<Next>>_vars)

\* ------------------------------------------------------------------------
\* The constructor on arbitrary argument strings: __init__ normalizes each root
\* argument (line 37), crawl_and_scrape passes the result to explore_and_scrape, which
\* normalizes it again (line 56). No page of the web answers: every fetch fails in the
\* transport.
\* ------------------------------------------------------------------------

\* the strings that start an argument, and the characters that continue it
UrlHeads ==
    {<<>>, <<"/">>, S_http \o <<":">>, <<"H", "T", "T", "P", ":", "/", "/", "a">>,
     <<"x", ":">>, <<"/", "/", "a">>}

UrlChars == {"/", "a", "?", "#", ";", ":"}

MaxChars == 3

UrlArgs ==
    {h \o t : h \in UrlHeads, t \in UNION {[1..n -> UrlChars] : n \in 0..MaxChars}}

\* the part of a URL string before its query and fragment: up to the first "?" or "#"
BeforeQuery(u) ==
    LET stops == {i \in 1..Len(u) : u[i] \in {"?", "#"}}
    IN  IF stops = {} THEN u
        ELSE Take(u, (CHOOSE i \in stops : \A j \in stops : i <= j) - 1)

\* query and fragment endings of a second argument
QueryEndings ==
    {<<>>, <<"?", "q">>, <<"#", "f">>, <<"?", "q", "#", "f">>, <<"#", "f", "?", "q">>}

\* the argument lists: one URL, or two URLs that differ only in query and fragment
ArgLists ==
    {<<u>> : u \in UrlArgs}
    \cup {l \in {<<u, BeforeQuery(u) \o e>> : u \in UrlArgs, e \in QueryEndings} :
              l[1] # l[2]}

NormalizeInit ==
    /\ web = [u \in {} |-> u]
    /\ root_urls \in ArgLists
    /\ ignore_urls = {}
    /\ found_urls = {}
    /\ visited_urls = {}
    /\ scraped_data = <<>>
    /\ pc = "init"
    /\ ri = 1
    /\ url = <<>>
    /\ normalized_url = <<>>
    /\ fetch_log = <<>>
    /\ text_content = <<>>

\* line 37: self.root_urls = [self.normalize_url(url) for url in root_urls]
Construct ==
    /\ pc = "init"
    /\ root_urls' = [i \in 1..Len(root_urls) |-> normalize_url(root_urls[i])]
    /\ pc' = "for"
    /\ UNCHANGED <<web, ignore_urls, found_urls, visited_urls, scraped_data, ri, url,
                   normalized_url, fetch_log, text_content>>

NormalizeNext ==
    \/ Construct
    \/ ForRoot
    \/ Enter
    \/ Fetch
    \/ WhileExit
    \/ ForEnd

NormalizeSpec == NormalizeInit /\ [][NormalizeNext]_vars

\* ------------------------------------------------------------------------
\* Crawls over boundary arguments: a root without a path, a root whose path is a
\* prefix of a sibling's, a root that is a file URL, the default root '' and roots
\* without an authority
\* ------------------------------------------------------------------------

P_doc == <<"/", "d", "o", "c">>

P_docsx == <<"/", "d", "o", "c", "s", "x">>

DocUrl == Origin \o P_doc

DocsxUrl == Origin \o P_docsx

\* a page of another host whose name continues the root's
EvilUrl == Origin \o <<".", "e", "v", "i", "l", "/", "x">>

\* the same host and a path under /doc, with another scheme
HttpsDocUrl == S_https \o <<":", "/", "/", "e", "x", "a", "m", "p", "l", "e", ".", "c", "o", "m">>
               \o P_doc \o <<"/", "s">>

A_slashes == <<"/", "/", "/", "/", "/">>

A_x_slashes == <<"x", ":", "/", "/", "/", "/">>

EdgePages == {Origin, DocUrl, DocsxUrl, DocsUrl, DocsAUrl, FilePdfUrl, EvilUrl}

LinksEdge(u) ==
    CASE u = Origin -> <<P_doc, EvilUrl, P_docs>>
      [] u = DocUrl -> <<P_docsx, HttpsDocUrl, P_file_pdf, P_other>>
      [] u = DocsxUrl -> <<P_doc>>
      [] u = DocsUrl -> <<A_x_slashes, P_file_pdf, P_docs_a>>
      [] u = DocsAUrl -> <<P_docs>>
      [] OTHER -> <<>>

EdgeFlakyPages == {Origin, DocUrl, DocsUrl}

EdgeWebs ==
    {[u \in EdgePages |-> [outcome |-> IF u \in EdgeFlakyPages THEN o[u] ELSE "200",
                           text |-> PageText(u),
                           links |-> LinksEdge(u)]] :
        o \in [EdgeFlakyPages -> {"200", "404"}]}

\* default_root_urls is [''] (lines 11-13)
EdgeArgs == {Origin, DocUrl, DocsUrl, FilePdfUrl, A_x_slashes, A_slashes, <<>>}

EdgeArgLists == {<<a>> : a \in EdgeArgs} \cup {<<a, b>> : a, b \in EdgeArgs}

EdgeIgnoreArgs == {{}, {P_docs}}

EdgeInit ==
    /\ web \in EdgeWebs
    /\ root_urls \in EdgeArgLists
    /\ ignore_urls \in EdgeIgnoreArgs
    /\ found_urls = {}
    /\ visited_urls = {}
    /\ scraped_data = <<>>
    /\ pc = "init"
    /\ ri = 1
    /\ url = <<>>
    /\ normalized_url = <<>>
    /\ fetch_log = <<>>
    /\ text_content = <<>>

EdgeNext ==
    \/ Construct
    \/ Next

EdgeSpec == EdgeInit /\ [][EdgeNext]_vars

\* ------------------------------------------------------------------------
\* Properties
\* ------------------------------------------------------------------------

Failed(u) == Outcome(u) \in {"404", "err"}

\* C1: in any crawl each normalized URL is passed to requests.get at most once, also
\* across roots: no URL occurs twice in the fetch log.
C1_FetchedAtMostOnce ==
    \A i, j \in 1..Len(fetch_log) : fetch_log[i] = fetch_log[j] => i = j

\* the second root was fetched during the crawl of the first root (it is not the last
\* fetch) and its own explore_and_scrape call has returned without fetching it again
C1_Witness ==
    /\ ri = 2 /\ pc = "while" /\ Len(root_urls) = 2
    /\ url = root_urls[2] /\ root_urls[2] # root_urls[1]
    /\ Len(fetch_log) >= 3
    /\ \E i \in 1..(Len(fetch_log) - 1) : fetch_log[i] = root_urls[2]
    /\ \E i \in 1..Len(fetch_log) : Failed(fetch_log[i])

\* C2: while crawl_and_scrape runs the loop of root R, link discovery adds to
\* found_urls only URLs within the scope of R (URLs that start with R).
C2_FrontierWithinCurrentRoot ==
    [][\A u \in found_urls' \ found_urls : StartsWith(u, root_urls[ri])]_vars

\* C3: a URL that contains an ignore pattern as a substring is never fetched and is
\* never a key of scraped_data.
C3_IgnoredNeverFetchedNorStored ==
    \A u \in Range(fetch_log) \cup Keys(scraped_data) :
        \A ig \in ignore_urls : ~Contains(u, ig)

\* a crawl has ended in which a fetched page links to an ignored URL and the second
\* root is itself ignored and was dropped by the guard
C3_Witness ==
    /\ pc = "done" /\ Len(root_urls) = 2
    /\ normalized_url = root_urls[2]
    /\ should_ignore(root_urls[2], ignore_urls)
    /\ root_urls[2] \notin visited_urls
    /\ \E p \in Keys(scraped_data) : \E i \in 1..Len(web[p].links) :
           should_ignore(normalize_url(urljoin(p, web[p].links[i])), ignore_urls)

\* C4: every key of scraped_data is a member of visited_urls.
C4_StoredAreVisited == Keys(scraped_data) \subseteq visited_urls

\* the converse fails here: a visited URL whose fetch failed has no entry
C4_Witness ==
    /\ Keys(scraped_data) # {}
    /\ \E u \in visited_urls \ Keys(scraped_data) : u \in Range(fetch_log) /\ Failed(u)

\* C5 as stated: between two explore_and_scrape calls of crawl_and_scrape, found_urls
\* and visited_urls are disjoint.
C5_FoundDisjointFromVisited ==
    pc = "while" => found_urls \cap visited_urls = {}

\* C5 amended: found_urls only grows: a URL selected from found_urls - visited_urls is
\* still in found_urls once its call has marked it visited; it leaves only the difference
\* found_urls - visited_urls.
C5_FoundOnlyGrows ==
    [][/\ found_urls \subseteq found_urls'
       /\ (pc = "enter" /\ url \in found_urls \ visited_urls /\ url \in visited_urls')
              => url \in found_urls' \cap visited_urls']_vars

\* between two calls a URL is both found and visited
C5_Witness ==
    pc = "while" /\ found_urls \cap visited_urls # {} /\ found_urls \ visited_urls # {}

\* ------------------------------------------------------------------------
\* What a crawl is expected to store, as a function of the roots, the ignore
\* patterns and the web alone
\* ------------------------------------------------------------------------

\* in scope of a root, not ignored, not skipped by extension
Admissible(u) ==
    /\ \E i \in 1..Len(root_urls) : StartsWith(u, root_urls[i])
    /\ \A ig \in ignore_urls : ~Contains(u, ig)
    /\ ~is_file_url(u)

\* the normalized targets of the links of page p
LinkTargets(p) ==
    {normalize_url(urljoin(p, web[p].links[i])) : i \in 1..Len(web[p].links)}

\* the least set that holds the admissible roots and the admissible link targets of
\* its members that answer 200 and parse; `kinds` are the outcomes that are kept
RECURSIVE Reach(_, _)
Reach(S, kinds) ==
    LET from == {p \in S : Outcome(p) = "200"}
        T == S \cup {u \in UNION {LinkTargets(p) : p \in from} :
                         Admissible(u) /\ Outcome(u) \in kinds}
    IN  IF T = S THEN S ELSE Reach(T, kinds)

ReachFromRoots(kinds) ==
    Reach({root_urls[i] : i \in {j \in 1..Len(root_urls) :
               Admissible(root_urls[j]) /\ Outcome(root_urls[j]) \in kinds}}, kinds)

ExpectedStore == ReachFromRoots({"200"})

\* some page that answers 200 but cannot be parsed is reached: the crawl is aborted
ExpectedAbort == \E u \in ReachFromRoots({"200", "unparsable"}) : Outcome(u) = "unparsable"

\* the least URL of a non-empty set
MinUrl(S) == CHOOSE x \in S : \A y \in S : x = y \/ StrLess(x, y)

\* one entry per URL of S, in strictly ascending order of URL, with content txt[u]
RECURSIVE RenderAscending(_, _)
RenderAscending(S, txt) ==
    IF S = {} THEN <<>>
    ELSE LET m == MinUrl(S)
         IN  RenderEntry(m, txt[m]) \o RenderAscending(S \ {m}, txt)

StoreAsMap == [u \in Keys(scraped_data) |-> DictGet(scraped_data, u)]

\* C6 for roots with an authority (the arguments of Init), where normalize_url leaves
\* every found URL unchanged (see C6_SelectedIsMarked for the other roots):
\* crawl_and_scrape terminates under every web and selection order; a URL selected
\* from found_urls - visited_urls is in visited_urls once the guard of its call has run,
\* the loop of a root is left only with found_urls - visited_urls empty, for the next
\* root, and when no page fails to parse every run reaches the end of the crawl.
C6_Terminates ==
    /\ <>Terminated
    /\ (\A u \in Pages : Outcome(u) # "unparsable") => <>(pc = "saved")
    /\ [][(pc = "enter" /\ url \in found_urls \ visited_urls)
              => url \in visited_urls']_vars
    /\ [][(pc = "while" /\ pc' # "enter")
              => (found_urls \ visited_urls = {} /\ pc' = "for" /\ ri' = ri + 1)]_vars

\* a crawl of two roots has ended after URLs were selected from the frontier and
\* fetches failed
C6_Witness ==
    /\ pc = "saved" /\ Len(root_urls) = 2 /\ ri = 3
    /\ found_urls # {} /\ found_urls \subseteq visited_urls
    /\ \E u \in found_urls : Failed(u)
    /\ \E u \in found_urls : Outcome(u) = "200"

\* C7: the result of a crawl is a function of the web, the roots and the ignore patterns
\* alone, whatever frontier members set.pop selected: a run is aborted exactly when
\* ExpectedAbort, it ends with the store ExpectedStore with each page's text, and the
\* rendered output is the entries of that store in ascending order of URL.
C7_ResultIndependentOfOrder ==
    /\ pc = "raised" => ExpectedAbort
    /\ pc \in {"done", "saved"} =>
          /\ ~ExpectedAbort
          /\ StoreAsMap = [u \in ExpectedStore |-> web[u].text]
    /\ pc = "saved" =>
          text_content = RenderAscending(ExpectedStore, [u \in Pages |-> web[u].text])

\* a finished crawl whose store was filled in an order that is not the sorted order, after
\* a choice among several frontier members
C7_Witness ==
    /\ pc = "saved" /\ Len(scraped_data) >= 3
    /\ \E i \in 1..(Len(scraped_data) - 1) :
           StrLess(scraped_data[i + 1][1], scraped_data[i][1])
    /\ \E i \in 2..(Len(fetch_log) - 1) :
           {fetch_log[i], fetch_log[i + 1]} \subseteq found_urls

\* the end-to-end scenario of the spec: root http://example.com/docs, whose page links
\* to /docs/a, /other and /docs/file.pdf, every page answering 200
Scenario ==
    /\ root_urls = <<DocsUrl>>
    /\ ignore_urls = {}
    /\ \A u \in Pages : web[u].links = LinksScenario(u)
    /\ \A u \in Pages : Outcome(u) = "200"

\* C8: when the crawl completes, the keys of scraped_data are exactly the URLs reachable
\* from a root through links of successfully fetched pages that are in scope, not
\* ignored, not extension-skipped and answered 200; in the scenario they are exactly
\* {http://example.com/docs, http://example.com/docs/a}.
C8_StoreIsReachableSet ==
    pc = "done" =>
        /\ Keys(scraped_data) = ExpectedStore
        /\ Scenario => Keys(scraped_data) = {DocsUrl, DocsAUrl}

\* the scenario has run to completion
C8_Witness ==
    /\ pc = "done" /\ Scenario
    /\ visited_urls = {DocsUrl, DocsAUrl}
    /\ fetch_log = <<DocsUrl, DocsAUrl>>

\* C9: convert_to_text renders exactly one entry per key of scraped_data, in strictly
\* ascending lexicographic order of URL.
C9_OneEntryPerUrlAscending ==
    pc = "saved" => text_content = RenderAscending(Keys(scraped_data), StoreAsMap)

\* a store of three entries that were inserted in descending order has been rendered
C9_Witness ==
    /\ pc = "saved" /\ Len(scraped_data) >= 3
    /\ StrLess(scraped_data[2][1], scraped_data[1][1])
    /\ StrLess(scraped_data[3][1], scraped_data[2][1])

\* C10: a non-200 response or a transport failure is not fatal and not retried: the
\* failed URL is fetched exactly once, an abort of the crawl never follows a failed
\* fetch, and a crawl in which fetches failed ends with every root taken and every found
\* URL visited.
C10_FailureIsLocal ==
    /\ \A i, j \in 1..Len(fetch_log) :
           (Failed(fetch_log[i]) /\ fetch_log[j] = fetch_log[i]) => i = j
    /\ pc = "raised" => ~Failed(fetch_log[Len(fetch_log)])
    /\ pc = "while" /\ fetch_log # <<>> /\ Failed(fetch_log[Len(fetch_log)])
          => fetch_log[Len(fetch_log)] \in visited_urls \ Keys(scraped_data)
    /\ pc = "done" =>
          (ri = Len(root_urls) + 1 /\ found_urls \subseteq visited_urls)

\* a crawl has ended in which a non-200 answer and a transport error were each followed
\* by further fetches, the last one for the second root
C10_Witness ==
    /\ pc = "done" /\ Len(root_urls) = 2
    /\ \E i, j \in 1..(Len(fetch_log) - 1) :
           Outcome(fetch_log[i]) = "404" /\ Outcome(fetch_log[j]) = "err"
    /\ fetch_log[Len(fetch_log)] = root_urls[2]
    /\ Outcome(root_urls[2]) = "200"

\* C11: when the fetch of a URL ends in a status other than 200 or in a transport error,
\* the explore_and_scrape call of that URL leaves scraped_data and found_urls unchanged
\* and returns to the loop; of visited_urls it changes only the membership of that URL,
\* which has no entry afterwards.
C11_FailedFetchFrame ==
    [][(pc \in {"enter", "fetch"} /\ Failed(normalize_url(url)))
          => /\ scraped_data' = scraped_data
             /\ found_urls' = found_urls
             /\ visited_urls' \subseteq visited_urls \cup {normalize_url(url)}
             /\ pc' \in {"fetch", "while"}
             /\ normalize_url(url) \notin Keys(scraped_data')]_vars

\* a failed fetch has returned: the URL is visited and has no entry, and a link of its
\* page that the crawl would have admitted is neither found nor visited
C11_Witness ==
    /\ pc = "while" /\ fetch_log # <<>>
    /\ LET u == fetch_log[Len(fetch_log)]
       IN  /\ Failed(u) /\ u \in visited_urls \ Keys(scraped_data)
           /\ \E t \in LinkTargets(u) :
                  Admissible(t) /\ t \notin found_urls \cup visited_urls

\* C12: a parse failure on a fetched page (an exception of BeautifulSoup or of
\* scrape_content that is not a RequestException) is recovered for that URL and the crawl
\* goes on: crawl_and_scrape is never left by the exception of an unparsable page.
C12_ParseFailureRecovered ==
    ~(pc = "raised" /\ Outcome(normalized_url) = "unparsable")

\* C13: normalize_url is idempotent: a URL that normalize_url returned (a root of
\* self.root_urls, a member of found_urls) is unchanged when explore_and_scrape
\* normalizes it again, so the normalized_url of a call is the argument of the call.
C13_NormalizeIdempotent ==
    pc \in {"fetch", "links", "while"} => normalized_url = url

\* C14: two URLs that differ only in query string or fragment (the same string up to
\* the first "?" or "#") normalize to the same value: given as two roots they are one
\* value in self.root_urls, one member of visited_urls and one fetch.
C14_QueryFragmentInsensitive ==
    /\ [][(/\ pc = "init" /\ Len(root_urls) = 2
           /\ BeforeQuery(root_urls[1]) = BeforeQuery(root_urls[2]))
              => root_urls'[1] = root_urls'[2]]_vars
    /\ []((pc # "init" /\ Len(root_urls) = 2 /\ root_urls[1] = root_urls[2])
              => (Cardinality(visited_urls) <= 1 /\ Len(fetch_log) <= 1))

\* two different arguments with the scheme HTTP, one with a query or a fragment, have
\* been crawled: one root value, visited once and fetched once
C14_Witness ==
    /\ pc = "done" /\ Len(root_urls) = 2 /\ ri = 3
    /\ StartsWith(root_urls[1], S_http \o <<":", "/", "/", "a", "/">>)
    /\ root_urls[2] = root_urls[1]
    /\ visited_urls = {root_urls[1]}
    /\ fetch_log = <<root_urls[1]>>

\* C15: a URL is marked visited before it is fetched: when requests.get is about to be
\* called on normalized_url it is a member of visited_urls, and every URL that was
\* passed to requests.get stays a member, whatever the fetch answered.
C15_VisitedBeforeFetch ==
    /\ pc = "fetch" => normalized_url \in visited_urls
    /\ Range(fetch_log) \subseteq visited_urls

\* a fetch is about to be issued after fetches that ended in 200, in another status and
\* in a transport error
C15_Witness ==
    /\ pc = "fetch" /\ normalized_url \notin Range(fetch_log)
    /\ \A o \in {"200", "404", "err"} :
           \E i \in 1..Len(fetch_log) : Outcome(fetch_log[i]) = o

\* C6: every URL selected from found_urls - visited_urls enters visited_urls in the
\* explore_and_scrape call that takes it (it is never dropped by the visited/scope/ignore
\* guard without being marked), which is what makes the loop of a root end.
C6_SelectedIsMarked ==
    [][(pc = "enter" /\ url \in found_urls \ visited_urls)
          => url \in visited_urls']_vars

\* the URL string ends in .pdf, .jpg or .jpeg
HasSkippedExtension(u) ==
    \E e \in {<<".", "p", "d", "f">>, <<".", "j", "p", "g">>, <<".", "j", "p", "e", "g">>} :
        Len(e) <= Len(u) /\ \A k \in 1..Len(e) : u[Len(u) - Len(e) + k] = e[k]

\* C16: a URL ending in .pdf, .jpg or .jpeg is never passed to requests.get, never added
\* to found_urls by the link loop and never a key of scraped_data (so no response of such
\* a URL exists that a PDF extraction could read).
C16_FileUrlsNeverFetched ==
    \A u \in Range(fetch_log) \cup found_urls \cup Keys(scraped_data) :
        ~HasSkippedExtension(u)

\* a crawl has ended in which a root was a .pdf URL, marked visited and skipped, and a
\* fetched page linked to a .pdf URL in scope
C16_Witness ==
    /\ pc = "done"
    /\ FilePdfUrl \in visited_urls
    /\ \E p \in Keys(scraped_data) : FilePdfUrl \in LinkTargets(p)
    /\ found_urls # {}

\* C17 as stated: once the explore_and_scrape call of a URL has returned, every member
\* of visited_urls is a URL that was passed to requests.get.
C17_VisitedWereFetched ==
    pc \in {"while", "for", "done", "saved"} => visited_urls \subseteq Range(fetch_log)

\* C17 amended: once the call of a URL has returned, every member of visited_urls was
\* passed to requests.get or ends in .pdf, .jpg or .jpeg, in which case it was marked and
\* skipped without a fetch.
C17_VisitedFetchedOrSkipped ==
    pc \in {"while", "for", "done", "saved"} =>
        \A u \in visited_urls :
            /\ u \in Range(fetch_log) \/ HasSkippedExtension(u)
            /\ HasSkippedExtension(u) => u \notin Range(fetch_log)

\* a crawl of two roots has ended: a .pdf root was marked and skipped, the other visited
\* URLs were fetched
C17_Witness ==
    /\ pc = "done" /\ Len(root_urls) = 2
    /\ \E u \in visited_urls : HasSkippedExtension(u) /\ u \notin Range(fetch_log)
    /\ \E u \in visited_urls : u \in Range(fetch_log)

\* the path component of a URL string
PathOf(u) == urlparse(u, <<>>).path

\* r is a prefix of the string t
IsPrefix(r, t) == Len(r) <= Len(t) /\ \A k \in 1..Len(r) : t[k] = r[k]

\* not skipped by extension and not ignored: the scope test alone decides
OnlyScopeDecides(t) ==
    ~HasSkippedExtension(t) /\ \A ig \in ignore_urls : ~Contains(t, ig)

HostOf(u) == urlparse(u, <<>>).netloc

\* C19: link discovery adds a URL to found_urls, and the crawl fetches a URL, only if its
\* network authority is that of a root: no URL whose host differs from the host of every
\* root is found or fetched.
C19_SameHostOnly ==
    pc # "init" =>
        \A u \in found_urls \cup Range(fetch_log) :
            \E i \in 1..Len(root_urls) : HostOf(u) = HostOf(root_urls[i])

\* C20: every member of visited_urls is one of the normalized root URLs or a member of
\* found_urls.
C20_VisitedAreRootsOrFound ==
    pc # "init" => visited_urls \subseteq Range(root_urls) \cup found_urls

====
